---- MODULE Spec2Model ----
(***************************************************************************)
(* Ticket Vault (src/app/main.py): a ledger of signed ticket transactions  *)
(* in one sqlite connection, a cached total per ticket holder, a           *)
(* transaction counter, and long-polls that wait for the counter to pass   *)
(* a threshold.                                                            *)
(*                                                                         *)
(* Every request handler is a coroutine on one event loop.  A handler runs *)
(* without interruption from one `await` to the next; each action below is *)
(* one such run.  A database call is queued to the connection's thread     *)
(* (dbq), executed there in queue order, and its caller is then made       *)
(* runnable again (ready), as is a long-poll whose event was set.  The     *)
(* loop resumes runnable coroutines in the order they became runnable.     *)
(*                                                                         *)
(* Spec is the whole server.  Its state space is the product of what the   *)
(* mutations and what the long-polls can do, so the claims are checked     *)
(* under parts of it: SpecMutations (every mutation, one plain reader),    *)
(* SpecPolls (every query, registrations and a few transaction lists), the *)
(* latter with a fair loop as FairPolls, SpecRestart (one writer, failing  *)
(* database calls, server stops and starts over a database file) and       *)
(* SpecHistory (registrations and posts with differing timestamps, and the *)
(* transaction listing).                                                   *)
(***************************************************************************)
EXTENDS Integers, Sequences, FiniteSets, TLC

\* ---------------------------------------------------------------- bounds

\* The ledger never grows beyond this many rows (requests are not accepted
\* once the rows written and the rows still to be written reach it).
MaxLedger == 4
\* Longest transaction list a POST /transactions carries.
MaxBatch == 2
\* Largest last-transaction-count a long-poll asks for.
MaxThreshold == 1
\* Latest "timestamp" a request carries, in half seconds.
MaxStamp == 3

\* Names a request can carry as <who> or "to".
Holders == {"A", "B"}
\* Amounts a posted transaction can carry (zero is what validation rejects).
Amounts == {-1, 0, 1}
\* Coroutines serving mutation requests, and coroutines serving GET /tickets.
Writers == {"w1", "w2"}
Readers == {"r1", "r2"}
Tasks == Writers \cup Readers
\* The "timestamp" values a request body can carry: the caller's, never the
\* server's clock.
Timestamps == 1..MaxStamp
\* Clients that all send the same timestamp.
OneStamp == {MaxStamp}

VARIABLES
    ledger,               \* rows of table transactions, in id order (id = index)
    ticket_totals,        \* app.ticket_totals: who -> total
    transaction_count,    \* app.transaction_count
    transaction_waiters,  \* app.transaction_waiters: count -> TransactionWaiter
    pc,                   \* where each coroutine is
    req,                  \* the request each suspended coroutine serves
    out,                  \* the last response sent: by whom, to which request
    dbq,                  \* calls queued to the connection thread, oldest first
    ready,                \* resumed coroutines the loop has yet to run, oldest first
    fired,                \* per long-poll: the counter when it suspended, the
                          \* cache and counter when its event was set
    db,                   \* app.db: "none" or "open"
    file,                 \* rows committed to the database at DB_PATH: what a
                          \* new connection finds
    cursor                \* per GET /transactions: the rows its SELECT produced

vars == <<ledger, ticket_totals, transaction_count, transaction_waiters,
          pc, req, out, dbq, ready, fired, db, file, cursor>>

\* ------------------------------------------------------------- data shapes

\* A {}-dict.
EmptyTotals == [h \in {} |-> 0]

\* class Transaction, without by (which nothing reads once it is validated).
Transaction(timestamp, who, amount, note) ==
    [timestamp |-> timestamp, who |-> who, amount |-> amount, note |-> note]

\* datetime_to_iso: the microseconds are dropped, so both halves of a second
\* give the same text; texts of this one format compare as their seconds do.
datetime_to_iso(dt) == dt \div 2

\* RegistrationModel.as_tuple: the zero-amount row a registration inserts.
RegistrationTuple(timestamp, who) ==
    Transaction(datetime_to_iso(timestamp), who, 0, "Initial registration")

\* RenameHolderModel.as_tuple: the zero-amount marker row, filed under "to".
RenameTuple(timestamp, who, to) ==
    Transaction(datetime_to_iso(timestamp), to, 0, "Ticket holder renamed from " \o who)

\* TransactionModel.as_tuple: a posted transaction's row.
TransactionTuple(t) == Transaction(datetime_to_iso(t.timestamp), t.who, t.amount, "")

\* The transactions a POST /transactions can carry with a timestamp of S, and
\* the lists of them.
TxnAt(S) == [who : Holders, amount : Amounts, timestamp : S]
BatchesAt(S) == UNION {[1..n -> TxnAt(S)] : n \in 0..MaxBatch}
\* The same from clients that all send the same timestamp.
Txn == TxnAt(OneStamp)
Batches == BatchesAt(OneStamp)

NoReq == [kind |-> "none", who |-> "", to |-> "", timestamp |-> 0,
          transactions |-> <<>>, poll |-> FALSE, count |-> 0]
RegisterReq(who, timestamp) ==
    [NoReq EXCEPT !.kind = "register", !.who = who, !.timestamp = timestamp]
RenameReq(who, to, timestamp) ==
    [NoReq EXCEPT !.kind = "rename", !.who = who, !.to = to, !.timestamp = timestamp]
PostReq(txns) == [NoReq EXCEPT !.kind = "post", !.transactions = txns]
QueryReq(poll, count) == [NoReq EXCEPT !.kind = "query", !.poll = poll, !.count = count]
\* GET /transactions
HistoryReq == [NoReq EXCEPT !.kind = "history"]

QueryReqs ==
    {QueryReq(FALSE, 0)} \cup {QueryReq(TRUE, c) : c \in 0..MaxThreshold}

\* json(app.ticket_totals, headers={"x-transaction-count": app.transaction_count})
Balances(status, totals, count) ==
    [status |-> status, body |-> "balances", totals |-> totals, count |-> count]
\* A response without balances: a message, validation errors, a server error.
Plain(status, body) ==
    [status |-> status, body |-> body, totals |-> EmptyTotals, count |-> 0]
NoResp == Plain(0, "none")
\* json([t._asdict() ...], headers={"x-transaction-count": app.transaction_count})
Listing(rows, count) ==
    [status |-> 200, body |-> "transactions", totals |-> EmptyTotals, count |-> count,
     rows |-> rows]

\* The default_factory of app.transaction_waiters.
TransactionWaiter == [waiter_count |-> 0, event |-> FALSE]

\* ------------------------------------------------------------ dict helpers

\* d[k] = v
Put(d, k, v) == [x \in DOMAIN d \cup {k} |-> IF x = k THEN v ELSE d[x]]
\* d without k (d.pop(k), k present)
Drop(d, k) == [x \in DOMAIN d \ {k} |-> d[x]]

RECURSIVE SumAmounts(_, _)
\* The sum of the amounts of the entries of s (rows or transactions) under who.
SumAmounts(s, who) ==
    IF s = <<>> THEN 0
    ELSE (IF Head(s).who = who THEN Head(s).amount ELSE 0) + SumAmounts(Tail(s), who)

\* Every ordering of the finite set S.
Orders(S) == {s \in [1..Cardinality(S) -> S] : \A x \in S : \E i \in DOMAIN s : s[i] = x}

\* Whether sequence s holds x.
InSeq(s, x) == \E i \in DOMAIN s : s[i] = x

\* ------------------------------------------------------ the program's state

\* What a long-poll has been through: the counter when it last suspended, and
\* the cache and counter when its event was set.
NoFire == [since |-> -1, set |-> FALSE, totals |-> EmptyTotals, count |-> 0]

Snapshot(totals, count) == [totals |-> totals, count |-> count]

\* What a response answers: the request's method and URL (its kind, the <who> of
\* its path, its last-transaction-count), without its JSON body.
RequestLine(r) == [r EXCEPT !.to = "", !.timestamp = 0, !.transactions = <<>>]

NoOut == [task |-> "", request |-> NoReq, response |-> NoResp]

\* Module level of app/main.py, before init_state, with the rows f in the
\* database at DB_PATH.
Imported(f) ==
    /\ ledger = f
    /\ ticket_totals = EmptyTotals
    /\ transaction_count = 0
    /\ transaction_waiters = [k \in {} |-> TransactionWaiter]
    /\ pc = [t \in Tasks |-> "idle"]
    /\ req = [t \in Tasks |-> NoReq]
    /\ out = NoOut
    /\ dbq = <<>>
    /\ ready = <<>>
    /\ fired = [r \in Readers |-> NoFire]
    /\ db = "none"
    /\ file = f
    /\ cursor = [r \in Readers |-> <<>>]

\* The server started on a database just created (":memory:", or a new file):
\* init_state finds no rows and leaves the module level as it is.
Init ==
    /\ ledger = <<>>
    /\ ticket_totals = EmptyTotals
    /\ transaction_count = 0
    /\ transaction_waiters = [k \in {} |-> TransactionWaiter]
    /\ pc = [t \in Tasks |-> "idle"]
    /\ req = [t \in Tasks |-> NoReq]
    /\ out = NoOut
    /\ dbq = <<>>
    /\ ready = <<>>
    /\ fired = [r \in Readers |-> NoFire]
    /\ db = "open"
    /\ file = <<>>
    /\ cursor = [r \in Readers |-> <<>>]

\* Rows the request r writes when it succeeds.
RowsOf(r) ==
    CASE r.kind = "post" -> Len(r.transactions)
      [] r.kind \in {"register", "rename"} -> 1
      [] OTHER -> 0

\* Whether writer t has yet to write the rows of its request.
Owes(t) ==
    \/ pc[t] \in {"rename_cursor", "rename_update"}
    \/ pc[t] \in {"register_insert", "rename_insert", "post_insert"} /\ InSeq(dbq, t)

RECURSIVE SumRows(_)
SumRows(S) ==
    IF S = {} THEN 0
    ELSE LET t == CHOOSE x \in S : TRUE IN RowsOf(req[t]) + SumRows(S \ {t})

\* Rows written plus rows the requests in progress may still write.
RowsInSight == Len(ledger) + SumRows({t \in Writers : Owes(t)})

\* Request r can arrive at coroutine t: the server is up, t serves no
\* request, and r fits.
Arrives(t, r) ==
    db = "open" /\ pc[t] = "idle" /\ RowsInSight + RowsOf(r) <= MaxLedger

\* The handler of t returns `response` to request r.
Reply(t, r, response) ==
    /\ pc' = [pc EXCEPT ![t] = "idle"]
    /\ req' = [req EXCEPT ![t] = NoReq]
    /\ out' = [task |-> t, request |-> RequestLine(r), response |-> response]

\* `await app.db...`: the call joins the connection thread's queue and the
\* coroutine serving r is suspended at `at`.
Await(t, r, at) ==
    /\ pc' = [pc EXCEPT ![t] = at]
    /\ req' = [req EXCEPT ![t] = r]
    /\ dbq' = Append(dbq, t)
    /\ UNCHANGED out

\* ------------------------------------------------------- the database thread

\* "UPDATE transactions SET who = ? WHERE who = ?"
UpdateWho(rows, to, who) ==
    [i \in DOMAIN rows |-> IF rows[i].who = who THEN [rows[i] EXCEPT !.who = to] ELSE rows[i]]

RECURSIVE Tuples(_)
\* tuple(t.as_tuple for t in transaction_list.transactions)
Tuples(txns) ==
    IF txns = <<>> THEN <<>> ELSE <<TransactionTuple(Head(txns))>> \o Tuples(Tail(txns))

\* The table after the call a coroutine suspended at `at` is waiting for.
Execute(at, r, rows) ==
    CASE at = "register_insert" -> Append(rows, RegistrationTuple(r.timestamp, r.who))
      [] at = "rename_update" -> UpdateWho(rows, r.to, r.who)
      [] at = "rename_insert" -> Append(rows, RenameTuple(r.timestamp, r.who, r.to))
      [] at = "post_insert" -> rows \o Tuples(r.transactions)
      [] OTHER -> rows

\* class TransactionWithId: a row with its id (ids are 1, 2, ... in the order
\* of insertion: no row is ever deleted).
TransactionWithId(id, row) ==
    [id |-> id, timestamp |-> row.timestamp, who |-> row.who, amount |-> row.amount,
     note |-> row.note]

\* "SELECT * FROM transactions ORDER BY timestamp DESC": every result the
\* statement allows, rows of equal timestamp coming in any order.
gen_transactions(rows) ==
    {[i \in DOMAIN rows |-> TransactionWithId(p[i], rows[p[i]])] :
        p \in {q \in Orders(DOMAIN rows) :
                \A i, j \in DOMAIN rows :
                    i < j => rows[q[i]].timestamp >= rows[q[j]].timestamp}}

\* The connection thread runs the oldest queued call and hands its result to
\* the loop, which makes the caller runnable.  The code never calls commit():
\* every statement runs in the transaction the first INSERT opened, which the
\* connection sees and the file does not.
DbThread ==
    /\ dbq # <<>>
    /\ LET t == Head(dbq) IN
        /\ ledger' = Execute(pc[t], req[t], ledger)
        /\ IF pc[t] = "history_select"
           THEN \E rows \in gen_transactions(ledger) :
                    cursor' = [cursor EXCEPT ![t] = rows]
           ELSE UNCHANGED cursor
        /\ dbq' = Tail(dbq)
        /\ ready' = Append(ready, t)
    /\ UNCHANGED <<ticket_totals, transaction_count, transaction_waiters,
                   pc, req, out, fired, db, file>>

\* The tables a call can leave when it raises (sqlite3.Error: disk full, I/O
\* error): executemany has inserted the rows before the one that failed, any
\* other statement has done nothing.  Nothing is rolled back.
Fails(at, r, rows) ==
    IF at = "post_insert"
    THEN {rows \o SubSeq(Tuples(r.transactions), 1, k) :
            k \in 0..(Len(r.transactions) - 1)}
    ELSE {rows}

\* The oldest queued call, a mutation's, raises: its caller is made runnable
\* with the exception.
DbFails ==
    /\ dbq # <<>> /\ Head(dbq) \in Writers
    /\ LET t == Head(dbq) IN
        /\ ledger' \in Fails(pc[t], req[t], ledger)
        /\ pc' = [pc EXCEPT ![t] = "raised"]
        /\ dbq' = Tail(dbq)
        /\ ready' = Append(ready, t)
    /\ UNCHANGED <<ticket_totals, transaction_count, transaction_waiters,
                   req, out, fired, db, file, cursor>>

\* ------------------------------------------------------------ notification

\* The long-poll condition with >= for >.
Reaches(count, count_last_seen) == count >= count_last_seen

\* `app.transaction_count > count_last_seen`: the long-poll condition, in
\* notify_transaction_waiters and (negated) in transaction_greater_than.
Exceeds(count, count_last_seen) == count > count_last_seen

\* notify_transaction_waiters comparing against the row about to come: an
\* entry is passed over until the counter is two beyond it.
NotifiedLate(waiters, count) ==
    [k \in DOMAIN waiters |->
        IF Exceeds(count, k + 1) THEN [waiters[k] EXCEPT !.event = TRUE] ELSE waiters[k]]

\* notify_transaction_waiters without its comparison: every event is set.
NotifiedAll(waiters, count) ==
    [k \in DOMAIN waiters |-> [waiters[k] EXCEPT !.event = TRUE]]

\* notify_transaction_waiters comparing with >= where the loop of
\* transaction_greater_than compares with >: the event of the entry the
\* counter has just reached is set as well.
NotifiedReached(waiters, count) ==
    [k \in DOMAIN waiters |->
        IF Reaches(count, k) THEN [waiters[k] EXCEPT !.event = TRUE] ELSE waiters[k]]

\* notify_transaction_waiters: the registry with the event set of every entry
\* the counter has passed.
Notified(waiters, count) ==
    [k \in DOMAIN waiters |->
        IF Exceeds(count, k) THEN [waiters[k] EXCEPT !.event = TRUE] ELSE waiters[k]]

\* The long-polls suspended on an event of `waiters` that is set.
Woken(waiters) ==
    {r \in Readers : pc[r] = "waiting" /\ waiters[req[r].count].event}

\* The tail of every successful mutation: the cache and the counter are
\* assigned, the waiters notified and the response built, with no await in
\* between.  The long-polls whose event is set become runnable.
Commit(t, totals, count, status) ==
    /\ ticket_totals' = totals
    /\ transaction_count' = count
    /\ transaction_waiters' = Notified(transaction_waiters, count)
    /\ \E order \in Orders(Woken(transaction_waiters')) : ready' = Tail(ready) \o order
    /\ pc' = [x \in Tasks |->
                IF x = t THEN "idle"
                ELSE IF x \in Woken(transaction_waiters') THEN "woken" ELSE pc[x]]
    /\ fired' = [r \in Readers |->
                IF r \in Woken(transaction_waiters')
                THEN [fired[r] EXCEPT !.set = TRUE, !.totals = totals, !.count = count]
                ELSE fired[r]]
    /\ req' = [req EXCEPT ![t] = NoReq]
    /\ out' = [task |-> t, request |-> RequestLine(req[t]),
               response |-> Balances(status, totals, count)]
    /\ UNCHANGED <<db, file, cursor>>

\* The handler dies of an uncaught exception after its database call: the
\* server answers 500 and nothing else happens.
Crash(t) ==
    /\ ready' = Tail(ready)
    /\ Reply(t, req[t], Plain(500, "error"))
    /\ UNCHANGED <<ticket_totals, transaction_count, transaction_waiters, fired,
                   db, file, cursor>>

\* A mutation handler whose database call raised runs again: nothing catches
\* the exception.
Raises(t) ==
    /\ ready # <<>> /\ Head(ready) = t /\ pc[t] = "raised"
    /\ Crash(t)
    /\ UNCHANGED <<ledger, dbq>>

\* --------------------------------------------- POST /ticket_holders/<who>

\* The membership test written as a truth test of the total: `if
\* app.ticket_totals.get(who)`, false for a holder whose total is zero.
RegisteredAndNonzero(who, totals) == who \in DOMAIN totals /\ totals[who] # 0

\* `who in app.ticket_totals`
Registered(who, totals) == who \in DOMAIN totals

\* `app.ticket_totals[who] = 0`
ApplyRegistration(totals, who) == Put(totals, who, 0)

\* register_ticket_holder up to its await: the check, then the INSERT is queued.
RegisterStart(t, who, timestamp) ==
    /\ Arrives(t, RegisterReq(who, timestamp))
    /\ IF Registered(who, ticket_totals)
       THEN Reply(t, RegisterReq(who, timestamp), Plain(200, "message")) /\ UNCHANGED dbq
       ELSE Await(t, RegisterReq(who, timestamp), "register_insert")
    /\ UNCHANGED <<ledger, ticket_totals, transaction_count, transaction_waiters,
                   ready, fired, db, file, cursor>>

\* register_ticket_holder after its await.
RegisterCommit(t) ==
    /\ ready # <<>> /\ Head(ready) = t /\ pc[t] = "register_insert"
    /\ Commit(t, ApplyRegistration(ticket_totals, req[t].who), transaction_count + 1, 201)
    /\ UNCHANGED <<ledger, dbq>>

\* -------------------------------------------- PATCH /ticket_holders/<who>

\* The assignment without the pop: the old name keeps its total.
ApplyRenameKeepingOld(totals, who, to) == Put(totals, to, totals[who])

\* `app.ticket_totals[rename.to] = app.ticket_totals.pop(rename.who)`
ApplyRename(totals, who, to) == Put(Drop(totals, who), to, totals[who])

\* The database call that follows the one a rename is suspended at.
NextCall(at) ==
    CASE at = "rename_cursor" -> "rename_update"
      [] at = "rename_update" -> "rename_insert"
      [] at = "rename_insert" -> "rename_close"

\* rename_ticket_holder up to its first await: the check, then the cursor is
\* asked for.
RenameStart(t, who, to, timestamp) ==
    /\ Arrives(t, RenameReq(who, to, timestamp))
    /\ IF ~Registered(who, ticket_totals)
       THEN Reply(t, RenameReq(who, to, timestamp), Plain(404, "message")) /\ UNCHANGED dbq
       ELSE Await(t, RenameReq(who, to, timestamp), "rename_cursor")
    /\ UNCHANGED <<ledger, ticket_totals, transaction_count, transaction_waiters,
                   ready, fired, db, file, cursor>>

\* Inside `async with app.db.cursor()`: one call has returned and the next
\* (the UPDATE, the INSERT, the cursor's close) is queued.
RenameAwait(t) ==
    /\ ready # <<>> /\ Head(ready) = t
    /\ pc[t] \in {"rename_cursor", "rename_update", "rename_insert"}
    /\ ready' = Tail(ready)
    /\ Await(t, req[t], NextCall(pc[t]))
    /\ UNCHANGED <<ledger, ticket_totals, transaction_count, transaction_waiters, fired,
                   db, file, cursor>>

\* rename_ticket_holder after the cursor block; the pop raises KeyError when
\* who has left the cache in the meantime.
RenameCommit(t) ==
    /\ ready # <<>> /\ Head(ready) = t /\ pc[t] = "rename_close"
    /\ IF Registered(req[t].who, ticket_totals)
       THEN Commit(t, ApplyRename(ticket_totals, req[t].who, req[t].to),
                   transaction_count + 1, 200)
       ELSE Crash(t)
    /\ UNCHANGED <<ledger, dbq>>

\* ------------------------------------------------------ POST /transactions

\* TransactionModel's validators that read the amount and the cache.
ValidTransaction(txn, totals) == txn.amount # 0 /\ Registered(txn.who, totals)

\* Validation that stops after the first transaction of the list.
ValidHead(txns, totals) == txns = <<>> \/ ValidTransaction(txns[1], totals)

\* TransactionListModel(transactions=request.json) raises no ValidationError.
ValidList(txns, totals) == \A i \in DOMAIN txns : ValidTransaction(txns[i], totals)

\* The cache update done for the holder of the first transaction alone.
ApplyAmountsToFirst(totals, txns) ==
    [who \in DOMAIN totals |->
        IF txns # <<>> /\ who = txns[1].who
        THEN totals[who] + SumAmounts(txns, who) ELSE totals[who]]

\* ticket_adjustments, then `app.ticket_totals[who] += amount` for each.
ApplyAmounts(totals, txns) ==
    [who \in DOMAIN totals |-> totals[who] + SumAmounts(txns, who)]

\* post_transactions up to its await: validation, then the INSERTs are queued.
PostStart(t, txns) ==
    /\ Arrives(t, PostReq(txns))
    /\ IF ~ValidList(txns, ticket_totals)
       THEN Reply(t, PostReq(txns), Plain(400, "errors")) /\ UNCHANGED dbq
       ELSE Await(t, PostReq(txns), "post_insert")
    /\ UNCHANGED <<ledger, ticket_totals, transaction_count, transaction_waiters,
                   ready, fired, db, file, cursor>>

\* post_transactions after its await; `ticket_adjustments[t.who] += t.amount`
\* raises KeyError when a who has left the cache in the meantime.
PostCommit(t) ==
    /\ ready # <<>> /\ Head(ready) = t /\ pc[t] = "post_insert"
    /\ IF \A i \in DOMAIN req[t].transactions :
            Registered(req[t].transactions[i].who, ticket_totals)
       THEN Commit(t, ApplyAmounts(ticket_totals, req[t].transactions),
                   transaction_count + Len(req[t].transactions), 201)
       ELSE Crash(t)
    /\ UNCHANGED <<ledger, dbq>>

\* ------------------------------------------------------------ GET /tickets

\* `waiters[count]`: the defaultdict makes a missing entry.
Entry(waiters, count) ==
    IF count \in DOMAIN waiters THEN waiters[count] ELSE TransactionWaiter

\* `waiters[count].waiter_count += 1`
Join(waiters, count) ==
    Put(waiters, count, [Entry(waiters, count) EXCEPT !.waiter_count = @ + 1])

\* The finally block without its pop.
LeaveEntry(waiters, count) ==
    Put(waiters, count, [Entry(waiters, count) EXCEPT !.waiter_count = @ - 1])

\* The finally block: `waiters[count].waiter_count -= 1`, and the entry is
\* popped when that leaves zero.
Leave(waiters, count) ==
    LET w == [Entry(waiters, count) EXCEPT !.waiter_count = @ - 1]
    IN IF w.waiter_count = 0 THEN Drop(waiters, count) ELSE Put(waiters, count, w)

\* One pass of transaction_greater_than's loop from its `while` test, over the
\* registry `waiters`, for request q: the caller leaves the loop and
\* query_tickets answers, or it joins the entry of its count and waits for the
\* event.  Waiting on an event that is already set does not suspend: the
\* caller goes straight through the finally block and round the loop again,
\* for ever.
Loop(r, q, waiters) ==
    IF ~q.poll \/ Exceeds(transaction_count, q.count)
    THEN /\ transaction_waiters' = waiters
         /\ Reply(r, q, Balances(200, ticket_totals, transaction_count))
         /\ fired' = [fired EXCEPT ![r] = NoFire]
    ELSE /\ transaction_waiters' = Join(waiters, q.count)
         /\ pc' = [pc EXCEPT ![r] =
                IF Entry(waiters, q.count).event THEN "spinning" ELSE "waiting"]
         /\ req' = [req EXCEPT ![r] = q]
         /\ fired' = [fired EXCEPT ![r] = [NoFire EXCEPT !.since = transaction_count]]
         /\ UNCHANGED out

\* query_tickets up to its answer or its first suspension.
QueryStart(r, q) ==
    /\ db = "open" /\ pc[r] = "idle"
    /\ Loop(r, q, transaction_waiters)
    /\ UNCHANGED <<ledger, ticket_totals, transaction_count, dbq, ready,
                   db, file, cursor>>

\* A long-poll whose event was set runs again: the finally block, then the
\* loop's test.
QueryResume(r) ==
    /\ ready # <<>> /\ Head(ready) = r /\ pc[r] = "woken"
    /\ ready' = Tail(ready)
    /\ Loop(r, req[r], Leave(transaction_waiters, req[r].count))
    /\ UNCHANGED <<ledger, ticket_totals, transaction_count, dbq,
                   db, file, cursor>>

\* The client of a suspended long-poll disconnects: the coroutine is
\* cancelled and will run its finally block when the loop gets to it.
Cancel(r) ==
    /\ pc[r] \in {"waiting", "woken"}
    /\ pc' = [pc EXCEPT ![r] = "cancelled"]
    /\ ready' = IF pc[r] = "waiting" THEN Append(ready, r) ELSE ready
    /\ UNCHANGED <<ledger, ticket_totals, transaction_count, transaction_waiters,
                   req, out, dbq, fired, db, file, cursor>>

\* A cancelled long-poll runs again: CancelledError passes through the finally
\* block and ends the request without a response.
QueryCancelled(r) ==
    /\ ready # <<>> /\ Head(ready) = r /\ pc[r] = "cancelled"
    /\ ready' = Tail(ready)
    /\ transaction_waiters' = Leave(transaction_waiters, req[r].count)
    /\ pc' = [pc EXCEPT ![r] = "idle"]
    /\ req' = [req EXCEPT ![r] = NoReq]
    /\ fired' = [fired EXCEPT ![r] = NoFire]
    /\ UNCHANGED <<ledger, ticket_totals, transaction_count, dbq, out,
                   db, file, cursor>>

\* ------------------------------------------------------- GET /transactions

\* The database call that follows the one a listing is suspended at: the
\* SELECT, the fetch of its rows, the cursor's close.
NextFetch(at) ==
    CASE at = "history_select" -> "history_fetch"
      [] at = "history_fetch" -> "history_close"

\* get_transactions up to its first await: the SELECT is queued.
GetTransactionsStart(r) ==
    /\ db = "open" /\ pc[r] = "idle"
    /\ Await(r, HistoryReq, "history_select")
    /\ UNCHANGED <<ledger, ticket_totals, transaction_count, transaction_waiters,
                   ready, fired, db, file, cursor>>

\* Inside gen_transactions: one call has returned and the next is queued.
GetTransactionsAwait(r) ==
    /\ ready # <<>> /\ Head(ready) = r
    /\ pc[r] \in {"history_select", "history_fetch"}
    /\ ready' = Tail(ready)
    /\ Await(r, req[r], NextFetch(pc[r]))
    /\ UNCHANGED <<ledger, ticket_totals, transaction_count, transaction_waiters, fired,
                   db, file, cursor>>

\* get_transactions after the cursor is closed: the rows go out as they came,
\* under the counter of this moment.
GetTransactionsReply(r) ==
    /\ ready # <<>> /\ Head(ready) = r /\ pc[r] = "history_close"
    /\ ready' = Tail(ready)
    /\ Reply(r, req[r], Listing(cursor[r], transaction_count))
    /\ cursor' = [cursor EXCEPT ![r] = <<>>]
    /\ UNCHANGED <<ledger, ticket_totals, transaction_count, transaction_waiters,
                   dbq, fired, db, file>>

\* ------------------------------------------------------ start, stop, crash

\* The holders with a row in `rows`.
Whos(rows) == {rows[i].who : i \in DOMAIN rows}

\* init_state (before_server_start; no request is served meanwhile): the
\* connection is opened, the totals are read into the cache, and the row
\* count is assigned to app.total_transactions, an attribute nothing reads:
\* app.transaction_count stays as it is.
init_state ==
    /\ db = "none"
    /\ db' = "open"
    /\ ledger' = file
    /\ ticket_totals' =
        [h \in DOMAIN ticket_totals \cup Whos(file) |->
            IF h \in Whos(file) THEN SumAmounts(file, h) ELSE ticket_totals[h]]
    /\ UNCHANGED <<transaction_count, transaction_waiters, pc, req, out, dbq, ready,
                   fired, file, cursor>>

\* reset_state (after_server_stop, every request served): the connection is
\* closed, which drops what was not committed, and the cache and the counter
\* are cleared.
reset_state ==
    /\ db = "open"
    /\ \A t \in Tasks : pc[t] = "idle"
    /\ db' = "none"
    /\ ledger' = file
    /\ ticket_totals' = EmptyTotals
    /\ transaction_count' = 0
    /\ UNCHANGED <<transaction_waiters, pc, req, out, dbq, ready, fired, file,
                   cursor>>

\* The process dies, at any point: the module level of the next process, and
\* the database as it was last committed.
Kill ==
    /\ db = "open"
    /\ ledger' = file
    /\ ticket_totals' = EmptyTotals
    /\ transaction_count' = 0
    /\ transaction_waiters' = [k \in {} |-> TransactionWaiter]
    /\ pc' = [t \in Tasks |-> "idle"]
    /\ req' = [t \in Tasks |-> NoReq]
    /\ dbq' = <<>>
    /\ ready' = <<>>
    /\ fired' = [r \in Readers |-> NoFire]
    /\ db' = "none"
    /\ cursor' = [r \in Readers |-> <<>>]
    /\ UNCHANGED <<out, file>>

\* ------------------------------------------------------------ specification

\* The steps of the three mutation handlers, served by the coroutines W to
\* clients that send the timestamps S and the transaction lists B, and of the
\* connection thread.
MutationsOf(W, S, B) ==
    \/ DbThread
    \/ \E t \in W, who \in Holders, ts \in S : RegisterStart(t, who, ts)
    \/ \E t \in W : RegisterCommit(t)
    \/ \E t \in W, who \in Holders, to \in Holders, ts \in S : RenameStart(t, who, to, ts)
    \/ \E t \in W : RenameAwait(t)
    \/ \E t \in W : RenameCommit(t)
    \/ \E t \in W, txns \in B : PostStart(t, txns)
    \/ \E t \in W : PostCommit(t)

\* The same for clients that all send the same timestamp.
Mutations == MutationsOf(Writers, OneStamp, Batches)

\* The steps of GET /tickets.
Queries ==
    \/ \E r \in Readers, q \in QueryReqs : QueryStart(r, q)
    \/ \E r \in Readers : QueryResume(r)
    \/ \E r \in Readers : Cancel(r)
    \/ \E r \in Readers : QueryCancelled(r)

\* The steps of GET /transactions, served by the coroutines R.
Listings(R) ==
    \/ \E r \in R : GetTransactionsStart(r)
    \/ \E r \in R : GetTransactionsAwait(r)
    \/ \E r \in R : GetTransactionsReply(r)

\* Database calls that raise, and the server stopped, started and killed.
Lifecycle(W) ==
    \/ DbFails
    \/ \E t \in W : Raises(t)
    \/ init_state
    \/ reset_state
    \/ Kill

\* The whole server.
Next ==
    \/ MutationsOf(Writers, Timestamps, BatchesAt(Timestamps))
    \/ Queries
    \/ Listings(Readers)
    \/ Lifecycle(Writers)

Spec == Init /\ [][Next]_vars

\* The mutations in full, next to one client that reads the balances without
\* a last-transaction-count.
NextMutations ==
    \/ Mutations
    \/ QueryStart("r1", QueryReq(FALSE, 0))

SpecMutations == Init /\ [][NextMutations]_vars

\* The transaction lists posted next to the long-polls: the empty one, which
\* leaves the counter where it is, one that moves it by two (a registration
\* moves it by one), and one with a zero amount.
PollBatches ==
    {<<>>,
     <<[who |-> "A", amount |-> 1, timestamp |-> MaxStamp],
       [who |-> "B", amount |-> -1, timestamp |-> MaxStamp]>>,
     <<[who |-> "A", amount |-> 1, timestamp |-> MaxStamp],
       [who |-> "B", amount |-> 0, timestamp |-> MaxStamp]>>}

\* GET /tickets in full, next to registrations and those transaction lists.
NextPolls ==
    \/ DbThread
    \/ \E t \in Writers, who \in Holders, ts \in OneStamp : RegisterStart(t, who, ts)
    \/ \E t \in Writers : RegisterCommit(t)
    \/ \E t \in Writers, txns \in PollBatches : PostStart(t, txns)
    \/ \E t \in Writers : PostCommit(t)
    \/ Queries

SpecPolls == Init /\ [][NextPolls]_vars

\* The event loop runs the coroutine at the head of its ready queue.
LoopRuns ==
    \E t \in Tasks :
        \/ RegisterCommit(t) \/ RenameAwait(t) \/ RenameCommit(t) \/ PostCommit(t)
        \/ QueryResume(t) \/ QueryCancelled(t)
        \/ GetTransactionsAwait(t) \/ GetTransactionsReply(t) \/ Raises(t)

\* SpecPolls on a loop that never stops running what is ready.
FairPolls == SpecPolls /\ WF_vars(LoopRuns)

\* The databases a server is started on: a new one, and two that hold rows
\* already.
Files ==
    {<<>>,
     <<RegistrationTuple(MaxStamp, "A")>>,
     <<RegistrationTuple(MaxStamp, "A"),
       TransactionTuple([who |-> "A", amount |-> 1, timestamp |-> MaxStamp])>>}

\* The transaction lists posted to the server that is stopped and started.
RestartBatches ==
    {<<[who |-> "A", amount |-> 1, timestamp |-> MaxStamp]>>,
     <<[who |-> "A", amount |-> 1, timestamp |-> MaxStamp],
       [who |-> "A", amount |-> -1, timestamp |-> MaxStamp]>>}

\* One client that mutates and one that reads the balances, on a database
\* whose calls can raise, under a server that is stopped, started and killed.
NextRestart ==
    \/ MutationsOf({"w1"}, OneStamp, RestartBatches)
    \/ QueryStart("r1", QueryReq(FALSE, 0))
    \/ Lifecycle({"w1"})

SpecRestart == (\E f \in Files : Imported(f)) /\ [][NextRestart]_vars

\* The transaction lists posted next to the listings: one transaction with
\* any timestamp, and two whose timestamps go back in time.
HistoryBatches ==
    {<<[who |-> "A", amount |-> 1, timestamp |-> ts]>> : ts \in Timestamps}
    \cup {<<[who |-> "A", amount |-> 1, timestamp |-> MaxStamp],
            [who |-> "A", amount |-> -1, timestamp |-> 1]>>}

\* One client that mutates, with timestamps of its choice, and one that
\* lists the transactions.
NextHistory ==
    \/ DbThread
    \/ \E who \in Holders, ts \in Timestamps : RegisterStart("w1", who, ts)
    \/ RegisterCommit("w1")
    \/ \E txns \in HistoryBatches : PostStart("w1", txns)
    \/ PostCommit("w1")
    \/ Listings({"r1"})

SpecHistory == Init /\ [][NextHistory]_vars

\* ------------------------------------------------------------------ claims

\* No mutation is in flight.
Quiescent == \A t \in Writers : pc[t] = "idle"

\* C1: whenever no mutation is in flight, the cached total of every holder is
\* the sum of the amounts of the ledger rows filed under that holder.
C1_CacheIsLedgerSum ==
    Quiescent =>
        \A h \in DOMAIN ticket_totals : ticket_totals[h] = SumAmounts(ledger, h)

\* C2: whenever no mutation is in flight, the counter is the number of ledger
\* rows, which is also the highest id assigned.
C2_CounterIsLedgerCount ==
    Quiescent => transaction_count = Len(ledger)

\* C3: at most one mutation is in progress at a time: a second one takes no
\* step, not even its precondition check, before the first has finished.
C3_OneMutationAtATime ==
    Cardinality({t \in Writers : pc[t] # "idle"}) <= 1

\* What the clients can see of the shared state: the cache and the counter.
Visible == Snapshot(ticket_totals, transaction_count)

\* The cache and counter that request r leaves when all of it is applied to
\* the cache `totals` and the counter `count`: the holder at zero and one more
\* row; the total moved to the new name and one more row; every holder's
\* total changed by the sum of its amounts, and one more row per transaction.
WholeEffect(r, totals, count) ==
    CASE r.kind = "register" ->
            Snapshot([h \in DOMAIN totals \cup {r.who} |->
                        IF h = r.who THEN 0 ELSE totals[h]], count + 1)
      [] r.kind = "rename" ->
            Snapshot([h \in (DOMAIN totals \ {r.who}) \cup {r.to} |->
                        IF h = r.to THEN totals[r.who] ELSE totals[h]], count + 1)
      [] r.kind = "post" ->
            Snapshot([h \in DOMAIN totals |->
                        totals[h] + SumAmounts(r.transactions, h)],
                     count + Len(r.transactions))

\* C4: what the clients can see only ever changes from the state before a
\* mutation to the state after all of it (cache update, every holder's delta
\* of a batch, counter advance), and every read of the balances, long-poll or
\* not, returns what can be seen at that moment.
C4_ReadsSeeWholeMutations ==
    [][/\ Visible' # Visible =>
            \E t \in Writers :
                /\ pc[t] # "idle"
                /\ Visible' = WholeEffect(req[t], ticket_totals, transaction_count)
       /\ (out' # out /\ out'.request.kind = "query") =>
            /\ out'.response = Balances(200, ticket_totals, transaction_count)
            /\ Visible' = Visible]_vars

\* A long-poll has been answered with both holders' deltas of one transaction
\* list applied.
C4_Witness ==
    /\ out.request.kind = "query" /\ out.request.poll
    /\ out.response = Balances(200, [A |-> 1, B |-> -1], 4)

\* What a mutation writes to, and the means by which waiters are notified.
Shared == <<ledger, ticket_totals, transaction_count, transaction_waiters, dbq, ready>>

\* The handler of t has answered in this step without having awaited anything.
AnswersAtOnce(t) == pc[t] = "idle" /\ out' # out /\ out'.task = t

\* C5: a transaction list with an entry whose holder is not registered or
\* whose amount is zero is never accepted for writing, whatever else it holds
\* and wherever the entry stands; POST /transactions then answers with the
\* errors, and nothing is appended, cached, counted or notified.
C5_InvalidBatchRejectedWhole ==
    [][\A t \in Writers :
        /\ (pc[t] = "idle" /\ pc'[t] = "post_insert") =>
            \A i \in DOMAIN req'[t].transactions :
                /\ req'[t].transactions[i].amount # 0
                /\ req'[t].transactions[i].who \in DOMAIN ticket_totals
        /\ (AnswersAtOnce(t) /\ out'.request.kind = "post") =>
            /\ out'.response = Plain(400, "errors")
            /\ UNCHANGED Shared]_vars

\* A transaction list has been rejected while A was registered (so for its
\* second entry, B's) and a long-poll was waiting.
C5_Witness ==
    /\ out.request.kind = "post" /\ out.response = Plain(400, "errors")
    /\ DOMAIN ticket_totals = {"A"}
    /\ \E r \in Readers : pc[r] = "waiting"

\* C6: a registration is only taken up for a holder absent from the cache and
\* a rename only for a holder present in it; otherwise the handler answers at
\* once (already registered; not registered, 404) and the ledger, the cache,
\* the counter and the waiter registry stay as they were, with nobody notified.
C6_FailedPreconditionChangesNothing ==
    [][\A t \in Writers :
        /\ (pc[t] = "idle" /\ pc'[t] = "register_insert") =>
            req'[t].who \notin DOMAIN ticket_totals
        /\ (pc[t] = "idle" /\ pc'[t] = "rename_cursor") =>
            req'[t].who \in DOMAIN ticket_totals
        /\ (AnswersAtOnce(t) /\ out'.request.kind = "register") =>
            /\ out'.request.who \in DOMAIN ticket_totals
            /\ out'.response = Plain(200, "message")
            /\ UNCHANGED Shared
        /\ (AnswersAtOnce(t) /\ out'.request.kind = "rename") =>
            /\ out'.request.who \notin DOMAIN ticket_totals
            /\ out'.response = Plain(404, "message")
            /\ UNCHANGED Shared]_vars

\* A registration of a holder that is in the cache with a total has been
\* refused.
C6_Witness ==
    /\ out.request.kind = "register" /\ out.response = Plain(200, "message")
    /\ out.request.who \in DOMAIN ticket_totals
    /\ ticket_totals[out.request.who] # 0

\* C7: a response to GET /tickets?last-transaction-count=T carries a counter
\* greater than T: the request is answered at once when the counter is beyond
\* T, and suspends only when it is not.
C7_PollAnswerExceedsThreshold ==
    [][/\ (out'.request.kind = "query" /\ out'.request.poll) =>
            /\ out'.response.body = "balances"
            /\ out'.response.count > out'.request.count
       /\ \A r \in Readers :
            /\ (pc[r] = "idle" /\ pc'[r] # "idle") =>
                    req'[r].poll /\ transaction_count <= req'[r].count
            /\ (pc[r] = "idle" /\ out' # out /\ out'.task = r /\ out'.request.poll) =>
                    transaction_count > out'.request.count]_vars

\* A long-poll on 1 has been answered.
C7_Witness ==
    /\ out.request.kind = "query" /\ out.request.poll /\ out.request.count = 1
    /\ out.response.body = "balances"

\* C8: a long-poll that suspended on threshold T with the counter at T is
\* answered with the cache and counter left by the mutation that set its
\* event, not by a later one.
C8_WaiterSeesCrossingMutation ==
    [][\A r \in Readers :
        (pc[r] = "woken" /\ fired[r].since = req[r].count
            /\ out' # out /\ out'.task = r) =>
            out'.response = Balances(200, fired[r].totals, fired[r].count)]_vars

\* The callers registered on threshold T: suspended, or resumed or cancelled
\* and not yet through the finally block.
Callers(T) ==
    {r \in Readers : pc[r] \in {"waiting", "woken", "cancelled"} /\ req[r].count = T}

\* C10: the registry has an entry for T exactly while a caller is registered
\* on T, with that many callers as its waiter count, cancelled callers
\* included: with no caller left the registry is empty.
C10_NoLeakedRegistrations ==
    /\ DOMAIN transaction_waiters = {T \in 0..MaxThreshold : Callers(T) # {}}
    /\ \A T \in DOMAIN transaction_waiters :
        transaction_waiters[T].waiter_count = Cardinality(Callers(T))

\* Two callers share an entry and one of them has been cancelled.
C10_Witness ==
    \E T \in DOMAIN transaction_waiters :
        /\ transaction_waiters[T].waiter_count = 2
        /\ \E r \in Callers(T) : pc[r] = "cancelled"

\* C9: a long-poll is never left suspended below the counter: the mutation
\* that takes the counter past its threshold sets its event in the same step;
\* and on a loop that keeps running, every long-poll whose event was set
\* returns.
C9_NoStarvation ==
    /\ [](\A r \in Readers :
            pc[r] = "waiting" =>
                /\ transaction_count <= req[r].count
                /\ ~transaction_waiters[req[r].count].event)
    /\ \A r \in Readers : (pc[r] = "woken") ~> (pc[r] = "idle")

\* Of two suspended long-polls, a mutation has set the event of the one whose
\* threshold it passed and left the other suspended.
C9_Witness ==
    \E r1, r2 \in Readers :
        /\ pc[r1] = "woken" /\ fired[r1].count = transaction_count
        /\ pc[r2] = "waiting" /\ req[r2].count >= transaction_count

\* C11: when the server is started on a database that holds n rows, the
\* counter that GET /tickets reports and long-polls compare against is n, and
\* the cache holds, for every holder with a row, the sum of its amounts.
C11_RebuildCountsLedger ==
    [][(db = "none" /\ db' = "open") =>
        /\ transaction_count' = Len(ledger')
        /\ DOMAIN ticket_totals' = Whos(ledger')
        /\ \A h \in Whos(ledger') : ticket_totals'[h] = SumAmounts(ledger', h)]_vars

\* A mutation of t has succeeded in this step: its handler has returned the
\* balances.
Succeeds(t) ==
    /\ pc[t] # "idle" /\ pc'[t] = "idle" /\ db' = "open"
    /\ out'.task = t /\ out'.response.body = "balances"

\* C12: the counter never decreases, and a mutation that succeeds advances it
\* by the number of rows it appends (a registration 1, a rename 1, a
\* transaction list its length), leaves the cache with the holder added at 0,
\* the total moved to the new name, or every holder's total changed by the
\* sum of its amounts in the list, and answers with that cache and counter.
C12_MutationAdvancesCounter ==
    [][/\ transaction_count' >= transaction_count
       /\ \A t \in Writers :
            Succeeds(t) =>
                /\ transaction_count' = transaction_count + RowsOf(req[t])
                /\ Visible' = WholeEffect(req[t], ticket_totals, transaction_count)
                /\ out'.response.totals = ticket_totals'
                /\ out'.response.count = transaction_count'
                /\ out'.response.status = IF req[t].kind = "rename" THEN 200 ELSE 201]_vars

\* A registration, a list of two transactions and a rename have taken the
\* counter to 1, 3 and 4.
C12_Witness ==
    /\ out.request.kind = "rename"
    /\ out.response = Balances(200, [B |-> 2], 4)

\* C13: GET /transactions returns every row of the table once, newest first,
\* that is by descending id: ids n, n-1, ..., 1 for a table of n rows,
\* whatever timestamps the callers sent with them.
C13_HistoryDescendingById ==
    [][\A r \in Readers :
        (pc[r] = "history_close" /\ pc'[r] = "idle" /\ out'.task = r) =>
            LET rows == out'.response.rows IN
                \A i \in DOMAIN rows : rows[i].id = Len(rows) + 1 - i]_vars

\* C14: when a rename of `who` to another name `to` succeeds, no row of the
\* table is filed under `who` any more and the marker row filed under `to` is
\* in the table, also with other mutations under way.
C14_RenameRelabelsEveryRow ==
    [][\A t \in Writers :
        (Succeeds(t) /\ req[t].kind = "rename" /\ req[t].who # req[t].to) =>
            /\ \A i \in DOMAIN ledger' : ledger'[i].who # req[t].who
            /\ InSeq(ledger', RenameTuple(req[t].timestamp, req[t].who, req[t].to))]_vars

\* C15: when a mutation updates the cache and the counter, the rows it wrote
\* are committed to the database file; so when the process dies, the table
\* the next process finds has a row for every row the counter had counted
\* and for every holder the cache had held.
C15_VisibleOnlyOnceDurable ==
    [][/\ \A t \in Writers : Succeeds(t) => file' = ledger'
       /\ (db = "open" /\ db' = "none") =>
            /\ transaction_count <= Len(ledger')
            /\ DOMAIN ticket_totals \subseteq Whos(ledger')]_vars

\* A mutation of t has failed in this step: its handler has died of an
\* exception and the server has answered 500.
Aborts(t) ==
    /\ pc[t] # "idle" /\ pc'[t] = "idle" /\ db' = "open"
    /\ out'.task = t /\ out'.response.status = 500

\* C16: a mutation that fails leaves the table and the cache as it found
\* them: a database call that raises has written nothing (with one client
\* mutating, the table before an INSERT of a registration or of a transaction
\* list is the table the handler found), and the handler that dies of it
\* changes neither table, cache nor counter.
C16_FailureLeavesNothingBehind ==
    [][\A t \in Writers :
        /\ (pc[t] \in {"register_insert", "post_insert"} /\ pc'[t] = "raised") =>
                UNCHANGED <<ledger, ticket_totals, transaction_count>>
        /\ Aborts(t) => UNCHANGED <<ledger, ticket_totals, transaction_count>>]_vars

\* C17: the waiters are notified by every mutation that succeeds and by
\* nothing else: the step sets the event of every entry whose threshold is
\* below the new counter and resumes the long-polls waiting on it, and leaves
\* every other entry as it was (event not set, waiter count, still there).
C17_NotifyFiresBelowCounter ==
    [][/\ \A t \in Writers :
            Succeeds(t) =>
                /\ DOMAIN transaction_waiters' = DOMAIN transaction_waiters
                /\ \A T \in DOMAIN transaction_waiters :
                        IF T < transaction_count'
                        THEN transaction_waiters'[T] =
                                [transaction_waiters[T] EXCEPT !.event = TRUE]
                        ELSE transaction_waiters'[T] = transaction_waiters[T]
                /\ \A r \in Readers :
                        pc[r] = "waiting" =>
                            pc'[r] = IF req[r].count < transaction_count'
                                     THEN "woken" ELSE "waiting"
       /\ (\E T \in DOMAIN transaction_waiters \cap DOMAIN transaction_waiters' :
                transaction_waiters'[T].event /\ ~transaction_waiters[T].event) =>
            \E t \in Writers : Succeeds(t)]_vars

\* A registration has taken the counter to 1: the long-poll on 0 is resumed
\* and the one on 1 left waiting, its event not set.
C17_Witness ==
    /\ out.request.kind = "register" /\ out.response.count = 1
    /\ transaction_count = 1
    /\ DOMAIN transaction_waiters = {0, 1}
    /\ transaction_waiters[0].event /\ ~transaction_waiters[1].event
    /\ \E r \in Readers : pc[r] = "waiting" /\ req[r].count = 1

\* C18: when a rename updates the cache, the old name is in the cache and
\* the new name is not another holder's: the old name's total moves to the
\* new name and every other holder keeps its entry and its total.
C18_RenameKeepsOtherTotals ==
    [][\A t \in Writers :
        (Succeeds(t) /\ req[t].kind = "rename") =>
            /\ req[t].who \in DOMAIN ticket_totals
            /\ req[t].to \notin DOMAIN ticket_totals \ {req[t].who}
            /\ ticket_totals'[req[t].to] = ticket_totals[req[t].who]
            /\ \A h \in DOMAIN ticket_totals \ {req[t].who} :
                    h \in DOMAIN ticket_totals' /\ ticket_totals'[h] = ticket_totals[h]]_vars

\* C19: when a post that passed validation runs again after its INSERTs, every
\* holder named in its list is a key of the cache, so it updates the cache,
\* advances the counter by the length of its list and answers 201.
C19_PostFindsItsHolders ==
    [][\A t \in Writers :
        (pc[t] = "post_insert" /\ pc'[t] = "idle" /\ db' = "open") =>
            /\ \A i \in DOMAIN req[t].transactions :
                    Registered(req[t].transactions[i].who, ticket_totals)
            /\ Succeeds(t)
            /\ transaction_count' = transaction_count + Len(req[t].transactions)]_vars

\* A registration of the same holder by another writer whose INSERT has
\* already run and whose handler has not resumed yet.
InsertedBefore(t) ==
    \E u \in Writers \ {t} :
        /\ pc[u] = "register_insert" /\ req[u].who = req[t].who
        /\ ~InSeq(dbq, u)

\* C20: with registrations and posts interleaved in every way, a registration
\* that writes the cache finds its holder absent from it, and the INSERT of a
\* registration never runs after that of another registration of the same
\* holder still in flight.
C20_RegisterNeverOverwrites ==
    [][\A t \in Writers :
        /\ (Succeeds(t) /\ req[t].kind = "register") =>
                ~Registered(req[t].who, ticket_totals)
        /\ (pc[t] = "register_insert" /\ InSeq(dbq, t) /\ ~InSeq(dbq', t)) =>
                ~InsertedBefore(t)]_vars

\* C21: an event is set only on an entry whose threshold is below the
\* counter, and the counter does not decrease while the registry has entries;
\* so a long-poll that runs again after its event was set leaves the loop and
\* is answered with a counter above its threshold, no long-poll ever waits on
\* an event that is already set, and a caller never joins an entry whose
\* event is set.
C21_WokenWaiterReturns ==
    [][/\ \A T \in DOMAIN transaction_waiters' :
            transaction_waiters'[T].event => T < transaction_count'
       /\ DOMAIN transaction_waiters # {} => transaction_count' >= transaction_count
       /\ \A r \in Readers :
            /\ (pc[r] = "woken" /\ pc'[r] \notin {"woken", "cancelled"}) =>
                    /\ pc'[r] = "idle"
                    /\ req[r].count \notin DOMAIN transaction_waiters'
                        \/ transaction_waiters'[req[r].count].waiter_count =
                                transaction_waiters[req[r].count].waiter_count - 1
                    /\ out' = [task |-> r, request |-> RequestLine(req[r]),
                               response |-> Balances(200, ticket_totals, transaction_count)]
                    /\ transaction_count > req[r].count
            /\ pc'[r] # "spinning"
            /\ (pc[r] = "idle" /\ pc'[r] = "waiting") =>
                    ~Entry(transaction_waiters, req'[r].count).event]_vars

\* One caller of a threshold has been answered while another, whose event
\* was set, has not run again yet: the entry is still in the registry with
\* its event set.
C21_Witness ==
    \E r1, r2 \in Readers :
        /\ pc[r1] = "idle" /\ out.task = r1 /\ out.request.poll
        /\ out.response.count > out.request.count
        /\ pc[r2] = "woken" /\ req[r2].count = out.request.count
        /\ transaction_waiters[req[r2].count] = [waiter_count |-> 1, event |-> TRUE]

====
